---- MODULE Spec2Model ----
(***************************************************************************)
(* VoiceSphere: the session controller of app/components/VoiceAssistant.tsx *)
(* and the completion relay of app/api/chat/route.ts.                       *)
(*                                                                          *)
(* A text is a sequence of tokens; " " is the whitespace token, a fixed    *)
(* literal of the source is one token.  A nullable value is a sequence of  *)
(* length 0 (null / undefined) or 1.  The timestamp field of a Message     *)
(* (Date.now(), used only as the React list key) is not modelled.          *)
(***************************************************************************)
EXTENDS Integers, Sequences, FiniteSets, TLC

\* ------------------------------------------------------------------ bounds
MaxLen == 1        \* longest raw text typed or recognised
MaxCalls == 2      \* submitQuery invocations in one run
MaxPrompt == 2     \* longest raw prompt of a request handed directly to the relay
MaxHist == 2       \* longest history of such a request

Chars == {" ", "a"}
WhiteSpace == {" "}

RECURSIVE SeqsUpTo(_, _)
SeqsUpTo(S, n) ==
    IF n = 0 THEN {<<>>}
    ELSE LET shorter == SeqsUpTo(S, n - 1)
         IN shorter \cup {Append(s, x) : s \in {t \in shorter : Len(t) = n - 1}, x \in S}

RawTexts == SeqsUpTo(Chars, MaxLen)

\* ------------------------------------------------------------------ text
RECURSIVE TrimStart(_)
TrimStart(s) ==
    IF s = <<>> THEN s
    ELSE IF Head(s) \in WhiteSpace THEN TrimStart(Tail(s)) ELSE s

RECURSIVE TrimEnd(_)
TrimEnd(s) ==
    IF s = <<>> THEN s
    ELSE IF s[Len(s)] \in WhiteSpace THEN TrimEnd(SubSeq(s, 1, Len(s) - 1)) ELSE s

\* String.prototype.trim
Trim(s) == TrimEnd(TrimStart(s))

Null == <<>>
Some(x) == <<x>>

\* ------------------------------------------------------- literals of the UI
RECOGNITION_ERROR ==
    <<"Speech recognition is unavailable. Please use a Chromium-based browser.">>
MIC_DENIED == <<"Microphone access denied. Please enable it in your browser.">>
RecognitionErrorText(code) == <<"Recognition error: ">> \o code
ProblemText(message) == <<"I ran into a problem: ">> \o message
SOMETHING_WRONG == <<"Something went wrong">>
\* messages of the errors the platform throws
ABORT_MESSAGE == <<"AbortError">>
FETCH_FAILED_MESSAGE == <<"Failed to fetch">>
INVALID_STATE_MESSAGE == <<"InvalidStateError">>

ErrorCodes == {<<"not-allowed">>, <<"no-speech">>}

\* ------------------------------------------------------------ JSON values
JStr(text) == [t |-> "string", v |-> text]
JNull == [t |-> "null", v |-> <<>>]
JUndefined == [t |-> "undefined", v |-> <<>>]
JNumber == [t |-> "number", v |-> <<>>]
JArray(items) == [t |-> "array", v |-> items]
JEntry(role, content) == [t |-> "object", role |-> role, content |-> content]
JPayload(prompt, history) == [t |-> "object", prompt |-> prompt, history |-> history]

\* ---------------------------------------------- relay: app/api/chat/route.ts
SYSTEM_PROMPT == <<"You are VoiceSphere, an upbeat AI assistant inspired by Siri. ...">>
UNCONFIGURED == <<"The assistant is not configured. Set OPENAI_API_KEY.">>
NO_PROMPT == <<"Please provide a prompt.">>
NO_REPLY == <<"The assistant could not craft a reply.">>
FAILED == <<"Failed to process that request.">>
StatusOk == 200
StatusBadRequest == 400
StatusServerError == 500

ErrorResponse(text, status) == [status |-> status, kind |-> "error", text |-> text]
ReplyResponse(text) == [status |-> StatusOk, kind |-> "reply", text |-> text]

\* mutant: the filter forgets typeof message.content === "string"
Conforming_RoleOnly(message) ==
    /\ message.t = "object"
    /\ message.role.t = "string"
    /\ (message.role.v = <<"assistant">> \/ message.role.v = <<"user">>)

\* the predicate of history.filter
Conforming(message) ==
    /\ message.t = "object"
    /\ message.content.t = "string"
    /\ message.role.t = "string"
    /\ (message.role.v = <<"assistant">> \/ message.role.v = <<"user">>)

\* the callback of .map
ToChatMessage(message) == [role |-> message.role.v, content |-> message.content.v]

\* const messages = [system, ...history.filter(..).map(..), user prompt]
BuildMessages(prompt, history) ==
    <<[role |-> <<"system">>, content |-> SYSTEM_PROMPT]>>
        \o [i \in 1..Len(SelectSeq(history, Conforming)) |->
               ToChatMessage(SelectSeq(history, Conforming)[i])]
        \o <<[role |-> <<"user">>, content |-> prompt]>>

\* mutant: the prompt is not trimmed
PromptOf_NoTrim(payload) ==
    IF payload.t = "object" /\ payload.prompt.t = "string"
    THEN payload.prompt.v ELSE <<>>

\* payload?.prompt trimmed when it is a string, "" otherwise
PromptOf(payload) ==
    IF payload.t = "object" /\ payload.prompt.t = "string"
    THEN Trim(payload.prompt.v) ELSE <<>>

\* payload?.history when it is an array, [] otherwise
HistoryOf(payload) ==
    IF payload.t = "object" /\ payload.history.t = "array"
    THEN payload.history.v ELSE <<>>

\* mutant: the candidate's text is not trimmed
ReplyOf_NoTrim(upstream) ==
    IF upstream.content = Null THEN Null ELSE Some(upstream.content[1])

\* completion.choices[0]?.message?.content?.trim()
ReplyOf(upstream) ==
    IF upstream.content = Null THEN Null ELSE Some(Trim(upstream.content[1]))

\* mutant: the credential is looked at only after the prompt is validated
POST_ValidatesFirst(apiKey, body, upstream) ==
    IF body = Null
    THEN [response |-> ErrorResponse(FAILED, StatusServerError), upstreamCalls |-> <<>>]
    ELSE IF PromptOf(body[1]) = <<>>
    THEN [response |-> ErrorResponse(NO_PROMPT, StatusBadRequest), upstreamCalls |-> <<>>]
    ELSE IF apiKey = Null \/ apiKey = Some(<<>>)
    THEN [response |-> ErrorResponse(UNCONFIGURED, StatusServerError), upstreamCalls |-> <<>>]
    ELSE LET messages == BuildMessages(PromptOf(body[1]), HistoryOf(body[1]))
             reply == ReplyOf(upstream)
         IN IF upstream.kind = "throw"
            THEN [response |-> ErrorResponse(FAILED, StatusServerError),
                  upstreamCalls |-> <<messages>>]
            ELSE IF reply = Null \/ reply = Some(<<>>)
            THEN [response |-> ErrorResponse(NO_REPLY, StatusServerError),
                  upstreamCalls |-> <<messages>>]
            ELSE [response |-> ReplyResponse(reply[1]), upstreamCalls |-> <<messages>>]

\* POST: apiKey is process.env.OPENAI_API_KEY (nullable text), body the parsed
\* request body (Null when request.json() throws), upstream what the completion
\* API does when called.  The result is the response and the message lists
\* handed to openai.chat.completions.create.
POST(apiKey, body, upstream) ==
    IF apiKey = Null \/ apiKey = Some(<<>>)
    THEN [response |-> ErrorResponse(UNCONFIGURED, StatusServerError), upstreamCalls |-> <<>>]
    ELSE IF body = Null
    THEN [response |-> ErrorResponse(FAILED, StatusServerError), upstreamCalls |-> <<>>]
    ELSE LET payload == body[1]
             prompt == PromptOf(payload)
             history == HistoryOf(payload)
             messages == BuildMessages(prompt, history)
             reply == ReplyOf(upstream)
         IN IF prompt = <<>>
            THEN [response |-> ErrorResponse(NO_PROMPT, StatusBadRequest),
                  upstreamCalls |-> <<>>]
            ELSE IF upstream.kind = "throw"
            THEN [response |-> ErrorResponse(FAILED, StatusServerError),
                  upstreamCalls |-> <<messages>>]
            ELSE IF reply = Null \/ reply = Some(<<>>)
            THEN [response |-> ErrorResponse(NO_REPLY, StatusServerError),
                  upstreamCalls |-> <<messages>>]
            ELSE [response |-> ReplyResponse(reply[1]), upstreamCalls |-> <<messages>>]

\* environments of a relay request
ApiKeys == {Null, Some(<<>>), Some(<<"sk">>)}
UpstreamTexts == {<<>>, <<" ">>, <<"r">>, <<" ", "r">>}
Upstreams ==
    {[kind |-> "throw", content |-> Null], [kind |-> "choices", content |-> Null]}
        \cup {[kind |-> "choices", content |-> Some(text)] : text \in UpstreamTexts}

\* ------------------------------- controller: app/components/VoiceAssistant.tsx
VARIABLES
    messages,          \* useState<Message[]>: the Transcript
    isListening,       \* useState(false)
    recognitionError,  \* useState<string | null>
    pendingText,       \* useState("")
    isProcessing,      \* useState(false)
    recognitionRef,    \* TRUE when recognitionRef.current holds the recognizer
    controllerRef,     \* id of the call whose AbortController is held, 0 for null
    speechAvailable,   \* useMemo: a SpeechRecognition constructor exists
    onendClosure,      \* the state values the handlers bound at mount closed over
    calls,             \* the fetches issued: state, request body, signal.aborted
    recActive,         \* the recognizer is started and has not fired "end" yet
    synth,             \* the utterance queue of window.speechSynthesis (the code never
                       \* observes an utterance ending: only cancel() empties it)
    origin,            \* history: for each Turn, the call it belongs to
    lastOp,            \* history: the handler that ran last and its argument
    relay              \* a request handed directly to the relay endpoint

clientVars ==
    <<messages, isListening, recognitionError, pendingText, isProcessing, recognitionRef,
      controllerRef, speechAvailable, onendClosure, calls, recActive,
      synth, origin>>
vars == <<clientVars, lastOp, relay>>

CallIds == 1..MaxCalls
Turn(role, content) == [role |-> role, content |-> content]
Op(name, text, id) == [op |-> name, text |-> text, id |-> id]
NoCall == [state |-> "unused", payload |-> JNull, aborted |-> FALSE]
RelayIdle == [pc |-> "idle", apiKey |-> Null, body |-> Null,
              upstream |-> [kind |-> "throw", content |-> Null],
              result |-> Null]

\* the call a new submitQuery issues
NextId == Cardinality({c \in CallIds : calls[c].state # "unused"}) + 1

\* JSON.stringify({prompt, history: messages.map(({role, content}) => ..)})
ClientEntry(message) == JEntry(JStr(<<message.role>>), JStr(message.content))
ClientPayload(content, history) ==
    JPayload(JStr(content),
             JArray([i \in 1..Len(history) |-> ClientEntry(history[i])]))

\* mutant: the previous controller is not aborted
Abort_Nothing(cs, ref) == cs

\* controllerRef.current?.abort()
Abort(cs, ref) ==
    [c \in DOMAIN cs |-> IF c = ref THEN [cs[c] EXCEPT !.aborted = TRUE] ELSE cs[c]]

\* mutant: speak without cancel
speakText_NoCancel(text) == Append(synth, text)

\* speakText in a browser (window.speechSynthesis exists): the queue after
\* synth.cancel(); synth.speak(utterance)
speakText(text) == Append(SubSeq(synth, 1, 0), text)

\* submitQuery up to its await: the user Turn, the abort-and-replace of the
\* controller and the fetch.  history is the `messages` its closure holds.
submitQuery(content, history) ==
    LET id == NextId
    IN /\ id <= MaxCalls
       /\ isProcessing' = TRUE
       /\ messages' = Append(messages, Turn("user", content))
       /\ origin' = Append(origin, id)
       /\ calls' = [Abort(calls, controllerRef) EXCEPT
                       ![id] = [state |-> "pending",
                                payload |-> ClientPayload(content, history),
                                aborted |-> FALSE]]
       /\ controllerRef' = id

\* mutant: the form value is not trimmed
PromptText_NoTrim(raw) == raw

\* (formData.get("prompt") as string).trim()
PromptText(raw) == Trim(raw)

\* handleSubmit; the input and the Send button are disabled while isProcessing
handleSubmit(raw) ==
    /\ ~isProcessing
    /\ lastOp' = Op("handleSubmit", raw, 0)
    /\ LET text == PromptText(raw)
       IN IF text = <<>>
          THEN UNCHANGED clientVars
          ELSE /\ submitQuery(text, messages)
               /\ UNCHANGED <<isListening, recognitionError, pendingText, recognitionRef,
                              speechAvailable, onendClosure, recActive,
                              synth>>
    /\ UNCHANGED relay

\* mutant: the catch block swallows the error and appends no Turn
Settle_SwallowsError(id, content, spoken) ==
    /\ messages' = IF spoken THEN Append(messages, Turn("assistant", content)) ELSE messages
    /\ origin' = IF spoken THEN Append(origin, id) ELSE origin
    /\ synth' = IF spoken THEN <<content>> ELSE synth
    /\ isProcessing' = FALSE
    /\ calls' = [calls EXCEPT ![id] = [state |-> "done", payload |-> JNull,
                                       aborted |-> calls[id].aborted]]
    /\ UNCHANGED <<isListening, recognitionError, pendingText, recognitionRef,
                   controllerRef, speechAvailable, onendClosure, recActive>>
    /\ UNCHANGED relay

\* mutant: the catch block speaks its Turn too
Settle_SpeaksAlways(id, content, spoken) ==
    /\ messages' = Append(messages, Turn("assistant", content))
    /\ origin' = Append(origin, id)
    /\ synth' = <<content>>
    /\ isProcessing' = FALSE
    /\ calls' = [calls EXCEPT ![id] = [state |-> "done", payload |-> JNull,
                                       aborted |-> calls[id].aborted]]
    /\ UNCHANGED <<isListening, recognitionError, pendingText, recognitionRef,
                   controllerRef, speechAvailable, onendClosure, recActive>>
    /\ UNCHANGED relay

\* mutant: the new list is built from the list the closure holds, which lacks
\* the user Turn: setMessages([...messages, assistantMessage])
Settle_FromStaleList(id, content, spoken) ==
    /\ messages' = Append(SubSeq(messages, 1, Len(messages) - 1),
                          Turn("assistant", content))
    /\ origin' = Append(SubSeq(origin, 1, Len(origin) - 1), id)
    /\ synth' = IF spoken THEN <<content>> ELSE synth
    /\ isProcessing' = FALSE
    /\ calls' = [calls EXCEPT ![id] = [state |-> "done", payload |-> JNull,
                                       aborted |-> calls[id].aborted]]
    /\ UNCHANGED <<isListening, recognitionError, pendingText, recognitionRef,
                   controllerRef, speechAvailable, onendClosure, recActive>>
    /\ UNCHANGED relay

\* the rest of submitQuery once the awaited fetch has settled for call id:
\* the assistant Turn of the try or of the catch block, then finally.  It runs
\* as a later step of the event loop: handlers may run between the call being
\* issued or aborted and this continuation.  The two awaits of the try block
\* (fetch, then text() or json()) are one step: an abort between them rejects
\* the second as it would have rejected the first.
Settle(id, content, spoken) ==
    /\ messages' = Append(messages, Turn("assistant", content))
    /\ origin' = Append(origin, id)
    /\ synth' = IF spoken THEN speakText(content) ELSE synth
    /\ isProcessing' = FALSE
    /\ calls' = [calls EXCEPT ![id] = [state |-> "done", payload |-> JNull,
                                       aborted |-> calls[id].aborted]]
    /\ UNCHANGED <<isListening, recognitionError, pendingText, recognitionRef,
                   controllerRef, speechAvailable, onendClosure,
                   recActive>>
    /\ UNCHANGED relay

\* response.ok
ResponseOk(response) == response.status >= 200 /\ response.status <= 299

\* response.text() of an error response
ErrorJson(text) == <<"{\"error\":\"">> \o text \o <<"\"}">>

\* the fetch of an aborted call rejects with an AbortError
FetchAborted(id) ==
    /\ calls[id].state = "pending"
    /\ calls[id].aborted
    /\ lastOp' = Op("fetchAborted", <<>>, id)
    /\ Settle(id, ProblemText(ABORT_MESSAGE), FALSE)

\* the fetch rejects: the network failed
FetchFailed(id) ==
    /\ calls[id].state = "pending"
    /\ ~calls[id].aborted
    /\ lastOp' = Op("fetchFailed", <<>>, id)
    /\ Settle(id, ProblemText(FETCH_FAILED_MESSAGE), FALSE)

\* the relay answers the request
FetchResponded(id, apiKey, upstream) ==
    /\ calls[id].state = "pending"
    /\ ~calls[id].aborted
    /\ LET response == POST(apiKey, Some(calls[id].payload), upstream).response
           errorText == ErrorJson(response.text)
       IN IF ResponseOk(response)
          THEN /\ lastOp' = Op("fetchReplied", response.text, id)
               /\ Settle(id, response.text, TRUE)
          ELSE /\ lastOp' = Op("fetchRefused", response.text, id)
               /\ Settle(id, ProblemText(IF errorText = <<>> THEN SOMETHING_WRONG
                                         ELSE errorText), FALSE)

\* mutant: starting a capture does not clear the partial text
handleMicPress_KeepsPending ==
    /\ lastOp' = Op("handleMicPress", <<>>, 0)
    /\ IF ~speechAvailable
       THEN /\ recognitionError' = Some(RECOGNITION_ERROR)
            /\ UNCHANGED <<isListening, pendingText, recActive>>
       ELSE IF ~recognitionRef
       THEN UNCHANGED <<recognitionError, isListening, pendingText, recActive>>
       ELSE IF isListening
       THEN /\ isListening' = FALSE
            /\ UNCHANGED <<recognitionError, pendingText, recActive>>
       ELSE /\ pendingText' = pendingText
            /\ IF recActive
               THEN /\ recognitionError' = Some(INVALID_STATE_MESSAGE)
                    /\ UNCHANGED <<isListening, recActive>>
               ELSE /\ recognitionError' = Null
                    /\ recActive' = TRUE
                    /\ isListening' = TRUE
    /\ UNCHANGED <<messages, isProcessing, recognitionRef, controllerRef, speechAvailable,
                   onendClosure, calls, synth, origin, relay>>

\* handleMicPress
handleMicPress ==
    /\ lastOp' = Op("handleMicPress", <<>>, 0)
    /\ IF ~speechAvailable
       THEN /\ recognitionError' = Some(RECOGNITION_ERROR)
            /\ UNCHANGED <<isListening, pendingText, recActive>>
       ELSE IF ~recognitionRef
       THEN UNCHANGED <<recognitionError, isListening, pendingText, recActive>>
       ELSE IF isListening
       THEN \* recognition.stop(): "end" follows later
            /\ isListening' = FALSE
            /\ UNCHANGED <<recognitionError, pendingText, recActive>>
       ELSE /\ pendingText' = <<>>
            /\ IF recActive
               THEN \* recognition.start() throws: the recognizer is still started
                    /\ recognitionError' = Some(INVALID_STATE_MESSAGE)
                    /\ UNCHANGED <<isListening, recActive>>
               ELSE /\ recognitionError' = Null
                    /\ recActive' = TRUE
                    /\ isListening' = TRUE
    /\ UNCHANGED <<messages, isProcessing, recognitionRef, controllerRef, speechAvailable,
                   onendClosure, calls, synth, origin, relay>>

\* mutant: the partial text is appended to the Transcript as a user Turn
onresult_AppendsPartial(resultIndex, results) ==
    /\ recActive
    /\ lastOp' = Op("onresult", <<>>, 0)
    /\ pendingText' = Trim(SubSeq(results, resultIndex + 1, Len(results)))
    /\ messages' = Append(messages, Turn("user", pendingText'))
    /\ origin' = Append(origin, 0)
    /\ UNCHANGED <<isListening, recognitionError, isProcessing, recognitionRef,
                   controllerRef, speechAvailable, onendClosure, calls,
                   recActive, synth, relay>>

\* recognition.onresult: results holds the transcript of each result of the event
onresult(resultIndex, results) ==
    /\ recActive
    /\ lastOp' = Op("onresult", <<>>, 0)
    /\ pendingText' = Trim(SubSeq(results, resultIndex + 1, Len(results)))
    /\ UNCHANGED <<messages, isListening, recognitionError, isProcessing, recognitionRef,
                   controllerRef, speechAvailable, onendClosure, calls,
                   recActive, synth, origin, relay>>

\* recognition.onend: pendingText and submitQuery are those of the render the
\* effect ran in (deps [speechAvailable])
onend ==
    /\ recActive
    /\ recActive' = FALSE
    /\ lastOp' = Op("onend", <<>>, 0)
    /\ isListening' = FALSE
    /\ IF Trim(onendClosure.pendingText) = <<>>
       THEN UNCHANGED <<messages, pendingText, isProcessing, controllerRef, calls, origin>>
       ELSE /\ submitQuery(Trim(onendClosure.pendingText), onendClosure.messages)
            /\ pendingText' = <<>>
    /\ UNCHANGED <<recognitionError, recognitionRef, speechAvailable,
                   onendClosure, synth, relay>>

\* recognition.onerror
onerror(code) ==
    /\ recActive
    /\ lastOp' = Op("onerror", code, 0)
    /\ isListening' = FALSE
    /\ recognitionError' = Some(IF code = <<"not-allowed">> THEN MIC_DENIED
                                ELSE RecognitionErrorText(code))
    /\ UNCHANGED <<messages, pendingText, isProcessing, recognitionRef, controllerRef,
                   speechAvailable, onendClosure, calls, recActive, synth,
                   origin, relay>>

\* handleReset; the Reset button is disabled while there is nothing to show
handleReset ==
    /\ Len(messages) # 0 \/ pendingText # <<>>
    /\ lastOp' = Op("handleReset", <<>>, 0)
    /\ calls' = Abort(calls, controllerRef)
    /\ messages' = <<>>
    /\ origin' = <<>>
    /\ pendingText' = <<>>
    /\ isProcessing' = FALSE
    /\ synth' = <<>>
    /\ UNCHANGED <<isListening, recognitionError, recognitionRef, controllerRef,
                   speechAvailable, onendClosure, recActive, relay>>

\* the state after the first render and its effect
ClientInit ==
    /\ speechAvailable \in BOOLEAN
    /\ messages = <<>>
    /\ isListening = FALSE
    /\ recognitionError = IF speechAvailable THEN Null ELSE Some(RECOGNITION_ERROR)
    /\ pendingText = <<>>
    /\ isProcessing = FALSE
    /\ recognitionRef = speechAvailable
    /\ controllerRef = 0
    /\ onendClosure = [pendingText |-> <<>>, messages |-> <<>>]
    /\ calls = [c \in CallIds |-> NoCall]
    /\ recActive = FALSE
    /\ synth = <<>>
    /\ origin = <<>>
    /\ lastOp = Op("mount", <<>>, 0)

Init ==
    /\ ClientInit
    /\ relay = RelayIdle

Next ==
    \/ \E raw \in RawTexts : handleSubmit(raw)
    \/ \E id \in CallIds : FetchAborted(id)
    \/ \E id \in CallIds : FetchFailed(id)
    \/ \E id \in CallIds, apiKey \in ApiKeys, upstream \in Upstreams :
          FetchResponded(id, apiKey, upstream)
    \/ handleMicPress
    \/ \E results \in RawTexts : \E resultIndex \in 0..Len(results) :
          onresult(resultIndex, results)
    \/ onend
    \/ \E code \in ErrorCodes : onerror(code)
    \/ handleReset

Spec == Init /\ [][Next]_vars

\* the awaited fetch of call id settles: it resolves or rejects
Settles(id) ==
    \/ FetchAborted(id)
    \/ FetchFailed(id)
    \/ \E apiKey \in ApiKeys, upstream \in Upstreams : FetchResponded(id, apiKey, upstream)

\* ------------------------------------------ requests handed to the relay alone
RelayTexts == SeqsUpTo(Chars, MaxPrompt)
HistoryEntries ==
    {JNull,
     JEntry(JStr(<<"user">>), JStr(<<"a">>)),
     JEntry(JStr(<<"assistant">>), JStr(<<"r">>)),
     JEntry(JStr(<<"system">>), JStr(<<"a">>)),
     JEntry(JStr(<<"user">>), JNumber),
     JEntry(JNumber, JStr(<<"a">>))}
RelayPrompts == {JUndefined, JNumber} \cup {JStr(text) : text \in RelayTexts}
RelayHistories ==
    {JUndefined} \cup {JArray(h) : h \in SeqsUpTo(HistoryEntries, MaxHist)}
RelayBodies ==
    {Null, Some(JNull)}
        \cup {Some(JPayload(prompt, history)) :
                 prompt \in RelayPrompts, history \in RelayHistories}

RelayInit ==
    /\ ClientInit
    /\ relay \in [pc : {"request"}, apiKey : ApiKeys, body : RelayBodies,
                  upstream : Upstreams, result : {Null}]

\* the endpoint handles the request
RelayHandle ==
    /\ relay.pc = "request"
    /\ relay' = [relay EXCEPT !.pc = "responded",
                              !.result = Some(POST(relay.apiKey, relay.body,
                                                   relay.upstream))]
    /\ UNCHANGED <<clientVars, lastOp>>

RelayNext == RelayHandle

RelaySpec == RelayInit /\ [][RelayNext]_vars

TypeOK ==
    /\ Len(origin) = Len(messages)
    /\ controllerRef \in 0..MaxCalls
    /\ Len(synth) <= 1
    /\ isListening => recActive

\* --------------------------------------------------------------- properties
Pending(id) == calls[id].state = "pending"
IsBlank(text) == \A i \in DOMAIN text : text[i] \in WhiteSpace

\* C1: a call superseded by a later submitQuery leaves no Turn: once the user
\* Turn of call B is in the Transcript, no Turn of an earlier call A follows it.
C1_SupersededCallDiscarded ==
    \A i, j \in DOMAIN messages : i < j => origin[i] <= origin[j]

\* C2: in the state right after handleReset the Transcript is empty,
\* pendingText is "" and the session is neither listening nor processing.
C2_ResetYieldsIdle ==
    lastOp.op = "handleReset" =>
        /\ messages = <<>>
        /\ pendingText = <<>>
        /\ ~isListening
        /\ ~isProcessing

\* C3: a call cancelled by handleReset leaves no residue: every Turn of the
\* Transcript belongs to a call whose user Turn is in the Transcript before it
\* (a Turn appended after the reset by the cancelled call has none).
C3_ResetLeavesNoResidue ==
    \A j \in DOMAIN messages :
        \E i \in 1..j : origin[i] = origin[j] /\ messages[i].role = "user"

\* C4: the step that issues a call appends exactly one user Turn holding its
\* prompt; the step that settles the call appends exactly one assistant Turn for
\* it, the reply on success and the templated error otherwise; no other step
\* appends a Turn; and nothing keeps the fetch of a pending call from settling.
C4_IssueStep(id) ==
    /\ messages' = Append(messages, Turn("user", calls'[id].payload.prompt.v))
    /\ origin' = Append(origin, id)
    /\ calls'[id].payload.prompt.v # <<>>
C4_SettleStep(id) ==
    /\ Len(messages') = Len(messages) + 1
    /\ SubSeq(messages', 1, Len(messages)) = messages
    /\ origin' = Append(origin, id)
    /\ messages'[Len(messages')].role = "assistant"
    /\ lastOp'.id = id
    /\ lastOp'.op = "fetchReplied" => messages'[Len(messages')].content = lastOp'.text
    /\ lastOp'.op # "fetchReplied" =>
          /\ Len(messages'[Len(messages')].content) > 1
          /\ SubSeq(messages'[Len(messages')].content, 1, 1) = ProblemText(<<>>)
C4_OneUserOneAssistantTurn ==
    /\ [][/\ \A id \in CallIds :
               /\ (~Pending(id) /\ Pending(id)') => C4_IssueStep(id)
               /\ (Pending(id) /\ ~Pending(id)') => C4_SettleStep(id)
          /\ (\A id \in CallIds : calls'[id].state = calls[id].state) =>
                Len(messages') <= Len(messages)]_vars
    /\ [](\A id \in CallIds : Pending(id) => ENABLED Settles(id))
C4_Witness ==
    /\ lastOp.op = "fetchRefused"
    /\ Len(messages) = 4
    /\ messages[1].role = "user" /\ messages[2].role = "assistant"
    /\ messages[2].content = <<"r">>
    /\ messages[3].role = "user" /\ messages[4].role = "assistant"
    /\ origin = <<1, 1, 2, 2>>

\* C5: handleSubmit with an empty or whitespace-only prompt changes nothing:
\* no Turn, no call issued, no call aborted, the session state as it was.
C5_BlankPromptIsNoOp ==
    [][(lastOp'.op = "handleSubmit" /\ IsBlank(lastOp'.text)) => UNCHANGED clientVars]_vars
C5_Witness ==
    /\ lastOp.op = "handleSubmit"
    /\ lastOp.text = <<" ">>
    /\ \E id \in CallIds : Pending(id)
    /\ messages # <<>>

\* C6: the capture-ended event submits a non-blank pendingText (a user Turn with
\* it is appended) and clears pendingText; a blank one submits nothing; the
\* session leaves Listening in both cases.
C6_FinalizeSubmitsPending ==
    [][lastOp'.op = "onend" =>
          /\ ~isListening'
          /\ IF IsBlank(pendingText)
             THEN messages' = messages
             ELSE /\ messages' = Append(messages, Turn("user", Trim(pendingText)))
                  /\ pendingText' = <<>>]_vars

\* C7: isListening and isProcessing are never both true.
C7_OneSessionState == ~(isListening /\ isProcessing)

\* C8: at most one call is in flight and not aborted, and it is the one whose
\* controller controllerRef holds.
C8_AtMostOneLiveCall ==
    /\ Cardinality({id \in CallIds : Pending(id) /\ ~calls[id].aborted}) <= 1
    /\ \A id \in CallIds : (Pending(id) /\ ~calls[id].aborted) => controllerRef = id
C8_Witness ==
    \E a, b \in CallIds :
        /\ Pending(a) /\ calls[a].aborted
        /\ Pending(b) /\ ~calls[b].aborted

\* C9: a partial-recognition update changes pendingText only and leaves the
\* Transcript as it is; a user Turn enters the Transcript only as the prompt
\* typed into the form, trimmed, or as pendingText at the capture-ended event.
C9_OnlyFinalizedTurns ==
    [][/\ lastOp'.op = "onresult" => messages' = messages
       /\ \A i \in DOMAIN messages' :
             (i > Len(messages) /\ messages'[i].role = "user") =>
                \/ /\ lastOp'.op = "handleSubmit"
                   /\ ~IsBlank(lastOp'.text)
                   /\ messages'[i].content = Trim(lastOp'.text)
                \/ /\ lastOp'.op = "onend"
                   /\ messages'[i].content = pendingText]_vars
C9_Witness ==
    /\ lastOp.op = "onresult"
    /\ pendingText # <<>>
    /\ messages # <<>>

\* C10: the message list of an accepted request is the system persona, then the
\* history entries with role user or assistant and a string content, in their
\* order, then the trimmed prompt as a user message; nothing else.
C10_Textual(entry) ==
    /\ entry.t = "object"
    /\ entry.role \in {JStr(<<"user">>), JStr(<<"assistant">>)}
    /\ entry.content.t = "string"
RECURSIVE C10_Kept(_)
C10_Kept(history) ==
    IF history = <<>> THEN <<>>
    ELSE IF C10_Textual(Head(history))
         THEN <<[role |-> Head(history).role.v, content |-> Head(history).content.v]>>
                  \o C10_Kept(Tail(history))
         ELSE C10_Kept(Tail(history))
C10_Accepted ==
    /\ relay.pc = "responded"
    /\ relay.apiKey # Null /\ relay.apiKey # Some(<<>>)
    /\ relay.body # Null
    /\ relay.body[1].t = "object"
    /\ relay.body[1].prompt.t = "string"
    /\ ~IsBlank(relay.body[1].prompt.v)
C10_RelayMessageList ==
    C10_Accepted =>
        LET payload == relay.body[1]
            history == IF payload.history.t = "array" THEN payload.history.v ELSE <<>>
        IN relay.result[1].upstreamCalls =
               << <<[role |-> <<"system">>, content |-> SYSTEM_PROMPT]>>
                      \o C10_Kept(history)
                      \o <<[role |-> <<"user">>, content |-> Trim(payload.prompt.v)]>> >>
C10_Witness ==
    /\ C10_Accepted
    /\ relay.body[1].prompt.v = <<" ", "a">>
    /\ relay.body[1].history =
          JArray(<<JEntry(JStr(<<"system">>), JStr(<<"a">>)),
                   JEntry(JStr(<<"assistant">>), JStr(<<"r">>))>>)
    /\ Len(relay.result[1].upstreamCalls[1]) = 3

\* C11: with the credential absent the relay answers the configuration error
\* with the server-error status and calls the completion API not at all,
\* whatever the request body is.
C11_Unconfigured == relay.apiKey = Null \/ relay.apiKey = Some(<<>>)
C11_MissingCredential ==
    (relay.pc = "responded" /\ C11_Unconfigured) =>
        /\ relay.result[1].response = [status |-> 500, kind |-> "error", text |-> UNCONFIGURED]
        /\ relay.result[1].upstreamCalls = <<>>
C11_Witness ==
    /\ relay.pc = "responded"
    /\ relay.apiKey = Null
    /\ relay.body = Some(JPayload(JStr(<<"a">>), JArray(<<>>)))
    /\ relay.upstream.content = Some(<<"r">>)

\* C12 as claimed: a request whose prompt is missing, not a string or blank is
\* answered with the empty-prompt error and the client-error status and makes
\* no upstream call, whatever the configuration is.
C12_NoPrompt ==
    /\ relay.pc = "responded"
    /\ relay.body # Null
    /\ \/ relay.body[1].t # "object"
       \/ relay.body[1].prompt.t # "string"
       \/ IsBlank(relay.body[1].prompt.v)
C12_Rejected ==
    /\ relay.result[1].response = [status |-> 400, kind |-> "error", text |-> NO_PROMPT]
    /\ relay.result[1].upstreamCalls = <<>>
C12_EmptyPromptAnyConfiguration == C12_NoPrompt => C12_Rejected
\* C12 as amended: with the credential present, a request whose body parses and
\* whose prompt is missing, not a string or blank is answered with the
\* empty-prompt error and the client-error status and makes no upstream call,
\* whatever its history is.
C12_EmptyPromptWhenConfigured == (C12_NoPrompt /\ ~C11_Unconfigured) => C12_Rejected
C12_Witness ==
    /\ C12_NoPrompt
    /\ ~C11_Unconfigured
    /\ relay.body[1].t = "object"
    /\ relay.body[1].prompt = JStr(<<" ", " ">>)
    /\ relay.body[1].history = JArray(<<JEntry(JStr(<<"user">>), JStr(<<"a">>))>>)

\* C16: an accepted request makes exactly one upstream call and is answered
\* either with the first candidate's trimmed text, which is not empty, or, when
\* the upstream call throws or that text is missing or blank, with an error of
\* the server-error status.
C16_RelayOutcome ==
    C10_Accepted =>
        LET result == relay.result[1]
            usable == /\ relay.upstream.kind = "choices"
                      /\ relay.upstream.content # Null
                      /\ ~IsBlank(relay.upstream.content[1])
        IN /\ Len(result.upstreamCalls) = 1
           /\ usable =>
                 /\ result.response.status = 200
                 /\ result.response.kind = "reply"
                 /\ result.response.text = Trim(relay.upstream.content[1])
                 /\ result.response.text # <<>>
           /\ ~usable =>
                 /\ result.response.status = 500
                 /\ result.response.kind = "error"
                 /\ result.response.text \in {FAILED, NO_REPLY}
C16_Witness ==
    /\ C10_Accepted
    /\ relay.upstream.content = Some(<<" ", "r">>)
    /\ relay.result[1].response.text = <<"r">>

\* C13: after the capture capability reports an error the session is neither
\* listening nor processing, the diagnostic is the permission-denied message for
\* the code not-allowed and the generic templated message otherwise, and the
\* Transcript is as it was.
C13_CaptureErrorYieldsIdle ==
    [][lastOp'.op = "onerror" =>
          /\ ~isListening'
          /\ ~isProcessing'
          /\ recognitionError' =
                 Some(IF lastOp'.text = <<"not-allowed">> THEN MIC_DENIED
                      ELSE <<"Recognition error: ">> \o lastOp'.text)
          /\ messages' = messages]_vars

\* C14: a start-capture request in Idle.
C14_IdleStart == lastOp'.op = "handleMicPress" /\ ~isListening /\ ~isProcessing
C14_Started ==
    /\ pendingText' = <<>>
    /\ recognitionError' = Null
    /\ recActive'
    /\ isListening'
C14_Unavailable ==
    /\ ~isListening' /\ ~isProcessing'
    /\ ~recActive'
    /\ recognitionError' = Some(RECOGNITION_ERROR)
    /\ messages' = messages
    /\ pendingText' = pendingText
\* C14 as claimed: with the capability available the request clears pendingText
\* and the diagnostic, starts the capability and moves to Listening; with it
\* unavailable the session stays Idle, nothing is started, the fixed diagnostic
\* is set and Transcript and pendingText are as they were.
C14_StartCaptureAlwaysStarts ==
    [][C14_IdleStart => IF speechAvailable THEN C14_Started ELSE C14_Unavailable]_vars
\* C14 as amended: as claimed when no earlier capture is still ending; when the
\* recognizer is still started (stopped or failed, its end event not fired yet)
\* the start fails: pendingText is cleared, the session stays Idle and the
\* diagnostic is the message of the failure.
C14_StartCapture ==
    [][C14_IdleStart =>
          IF ~speechAvailable THEN C14_Unavailable
          ELSE IF ~recActive THEN C14_Started /\ messages' = messages
          ELSE /\ pendingText' = <<>>
               /\ ~isListening' /\ ~isProcessing'
               /\ recActive'
               /\ recognitionError' = Some(INVALID_STATE_MESSAGE)
               /\ messages' = messages]_vars
C14_Witness ==
    /\ lastOp.op = "handleMicPress"
    /\ speechAvailable
    /\ isListening /\ recActive
    /\ ~isProcessing
    /\ pendingText = <<>>
    /\ recognitionError = Null
    /\ messages # <<>>

\* C15: a stop request in Listening leaves the session neither listening nor
\* processing and pendingText = "", and submits nothing, nor does the
\* capture-ended event that follows the stop.
C15_UserCancel ==
    [][/\ (lastOp'.op = "handleMicPress" /\ isListening /\ ~isProcessing) =>
             /\ ~isListening' /\ ~isProcessing'
             /\ pendingText' = <<>>
             /\ messages' = messages /\ calls' = calls
       /\ (lastOp'.op = "onend" /\ ~isListening) =>
             /\ ~isListening'
             /\ pendingText' = <<>>
             /\ messages' = messages /\ calls' = calls]_vars

FailureOps == {"fetchRefused", "fetchFailed", "fetchAborted"}
LastTurn(ms) == ms[Len(ms)]

\* C17: the step in which a reply arrives appends the assistant Turn with the
\* reply and leaves exactly that text as the only utterance (what was queued is
\* cancelled); no other step puts an utterance in the queue.
C17_ReplyIsSpokenOnce ==
    [][/\ lastOp'.op = "fetchReplied" =>
             /\ messages' = Append(messages, Turn("assistant", lastOp'.text))
             /\ synth' = <<lastOp'.text>>
       /\ lastOp'.op # "fetchReplied" => (synth' = synth \/ synth' = <<>>)]_vars
C17_Witness ==
    /\ lastOp.op = "fetchReplied"
    /\ lastOp.id = 2
    /\ origin = <<1, 1, 2, 2>>
    /\ messages[2].content = <<"r">>
    /\ synth = <<messages[4].content>>

\* C18 as claimed: the step in which a relay call fails appends the templated
\* error Turn and speaks it: its content is the utterance queued.
C18_ErrorTurnIsSpoken ==
    [][lastOp'.op \in FailureOps =>
          /\ LastTurn(messages').role = "assistant"
          /\ synth' = <<LastTurn(messages').content>>]_vars
\* C18 as amended: the step in which a relay call fails appends the templated
\* error Turn and does not speak it: the utterance queue is as it was.
C18_ErrorTurnIsNotSpoken ==
    [][lastOp'.op \in FailureOps =>
          /\ Len(messages') = Len(messages) + 1
          /\ LastTurn(messages').role = "assistant"
          /\ SubSeq(LastTurn(messages').content, 1, 1) = <<"I ran into a problem: ">>
          /\ synth' = synth
          /\ synth' # <<LastTurn(messages').content>>]_vars
C18_Witness ==
    /\ lastOp.op = "fetchRefused"
    /\ origin = <<1, 1, 2, 2>>
    /\ synth = <<messages[2].content>>
    /\ messages[4].content # messages[2].content

\* C19: while the call controllerRef holds is in flight and not aborted the
\* session is processing.
C19_ProcessingTracksCurrentCall ==
    \A id \in CallIds :
        (controllerRef = id /\ Pending(id) /\ ~calls[id].aborted) => isProcessing

\* C20: every step but handleReset keeps the Turns the Transcript holds, in
\* their order, and at most appends after them.
C20_AppendOnly ==
    [][lastOp'.op # "handleReset" =>
          /\ Len(messages') >= Len(messages)
          /\ SubSeq(messages', 1, Len(messages)) = messages]_vars
C20_Witness ==
    /\ lastOp.op \in FailureOps
    /\ Len(messages) = 4
    /\ origin = <<1, 1, 2, 2>>

====
